---- MODULE Spec2Model ----
(***************************************************************************)
(* Model of the Gibud user dashboard (src/main.py): the risk classifier    *)
(* interpret_score, the record joiner fetch_user_data, the 60 second       *)
(* st.cache_data memoisation around it, and the sort/filter section of the *)
(* script.                                                                 *)
(*                                                                         *)
(* Optional values (Python None / a missing dict key) are sequences of     *)
(* length at most one: <<>> is None and <<v>> is the value v.              *)
(***************************************************************************)
EXTENDS Integers, Sequences, FiniteSets, TLC

VARIABLES users, surveys, now, cache, df, pc, last

vars == <<users, surveys, now, cache, df, pc, last>>

(***************************************************************************)
(* Bounds of the model.                                                    *)
(***************************************************************************)
MaxUsers == 3
MaxRows == 3
MaxCachedUsers == 2
MaxTime == 120
TickStep == 20
NegScores == 5
MaxScore == 100

None == <<>>
Some(v) == <<v>>

SeqsUpTo(S, n) == UNION {[1..k -> S] : k \in 0..n}

(***************************************************************************)
(* interpret_score, src/main.py:44-54.                                     *)
(***************************************************************************)
LowMax == 20
ModerateMax == 35
HighMax == 39

interpret_score_shifted(score) ==
    IF score = None THEN "Unknown"
    ELSE IF score[1] < LowMax THEN "Low Risk"
    ELSE IF score[1] < ModerateMax THEN "Moderate Risk"
    ELSE IF score[1] < HighMax THEN "High Risk"
    ELSE "Very High Risk"

interpret_score(score) ==
    IF score = None THEN "Unknown"
    ELSE IF score[1] <= LowMax THEN "Low Risk"
    ELSE IF score[1] <= ModerateMax THEN "Moderate Risk"
    ELSE IF score[1] <= HighMax THEN "High Risk"
    ELSE "Very High Risk"

(***************************************************************************)
(* Timestamps.  An instant is month * 10 + day of one year, so that the    *)
(* order of instants is the order of the integers.  The raw createdAt of a *)
(* user document is [kind, t]:                                             *)
(*   "absent"   the key is missing (data.get gives None)                   *)
(*   "emptystr" the empty string                                           *)
(*   "str"      a string pandas parses to the instant t                    *)
(*   "badstr"   a string pandas cannot parse                               *)
(*   "ts"       a native Firestore timestamp of instant t                  *)
(*   "bool"     the boolean True                                           *)
(*   "list"     an array value of two or more elements                     *)
(***************************************************************************)
NaT == [k |-> "NaT", t |-> 0]
Timestamp(t) == [k |-> "Timestamp", t |-> t]
DatetimeIndex == [k |-> "DatetimeIndex", t |-> 0]

RawAbsent == [kind |-> "absent", t |-> 0]
RawEmptyStr == [kind |-> "emptystr", t |-> 0]
RawStr(t) == [kind |-> "str", t |-> t]
RawBadStr == [kind |-> "badstr", t |-> 0]
RawTs(t) == [kind |-> "ts", t |-> t]
RawBool == [kind |-> "bool", t |-> 0]
RawList == [kind |-> "list", t |-> 0]

\* Python truthiness of the raw value, the test of src/main.py:75.
Truthy(raw) == raw.kind \notin {"absent", "emptystr"}

\* pd.to_datetime(raw, errors="coerce"), src/main.py:77: a parsable string or a
\* native timestamp gives a Timestamp, an unparsable string is coerced to NaT,
\* a boolean is refused with TypeError, an array gives a DatetimeIndex.
to_datetime(raw) ==
    CASE raw.kind \in {"str", "ts"} -> [exc |-> FALSE, val |-> Timestamp(raw.t)]
      [] raw.kind = "badstr" -> [exc |-> FALSE, val |-> NaT]
      [] raw.kind = "list" -> [exc |-> FALSE, val |-> DatetimeIndex]
      [] OTHER -> [exc |-> TRUE, val |-> NaT]

\* The normalisation block, src/main.py:75-81.
NormalizeTimestamp(raw) ==
    IF Truthy(raw)
    THEN LET r == to_datetime(raw) IN IF r.exc THEN NaT ELSE r.val
    ELSE NaT

\* strftime('%d-%m-%Y %H:%M:%S'): the day is written before the month.
strftime(t) == <<t % 10, t \div 10>>

NA == <<"N/A">>

\* The conditional expression of src/main.py:105.  pd.notnull of a
\* DatetimeIndex is an array, whose truth value raises ValueError.
FormatTimestamp(val) ==
    CASE val.k = "Timestamp" -> [exc |-> FALSE, s |-> strftime(val.t)]
      [] val.k = "NaT" -> [exc |-> FALSE, s |-> NA]
      [] OTHER -> [exc |-> TRUE, s |-> NA]

(***************************************************************************)
(* The document store.  A user document is the dict of doc.to_dict(); an   *)
(* empty dict has empty = TRUE.  A survey document has id and              *)
(* questionScore.                                                          *)
(***************************************************************************)
UserDoc(name, id, createdAt, gender, pay, age) ==
    [empty |-> FALSE, name |-> name, id |-> id, createdAt |-> createdAt,
     gender |-> gender, pay |-> pay, age |-> age]

EmptyDoc ==
    [empty |-> TRUE, name |-> None, id |-> None, createdAt |-> RawAbsent,
     gender |-> None, pay |-> None, age |-> None]

SurveyDoc(id, score) == [id |-> id, questionScore |-> score]

DocMatched == UserDoc(Some("Asha"), Some("u1"), RawStr(21), Some("Female"), Some(TRUE), Some(30))
DocUnmatched == UserDoc(Some("Ravi"), Some("u2"), RawAbsent, Some("Male"), Some(FALSE), Some(25))
DocBadId == UserDoc(Some("Asha"), Some("??"), RawBadStr, Some("Male"), Some(TRUE), None)
DocNoId == UserDoc(None, None, RawTs(12), None, None, Some(30))
DocListTs == UserDoc(Some("Ravi"), Some("u1"), RawList, Some("Female"), Some(FALSE), Some(41))
DocBoolTs == UserDoc(Some("Zoya"), Some("u2"), RawBool, Some("Other"), Some(TRUE), Some(25))
DocEmptyTs == UserDoc(Some("Zoya"), Some("u1"), RawEmptyStr, Some("Male"), None, Some(41))

UserDocs ==
    {DocMatched, DocUnmatched, DocBadId, DocNoId, DocListTs, DocBoolTs, DocEmptyTs,
     EmptyDoc}

SurveyHigh == SurveyDoc(Some("u1"), Some(38))
SurveyLow == SurveyDoc(Some("u1"), Some(10))
SurveyNoScore == SurveyDoc(Some("u2"), None)

SurveyLists ==
    {<<>>, <<SurveyHigh>>, <<SurveyLow, SurveyHigh>>, <<SurveyHigh, SurveyLow>>,
     <<SurveyNoScore, SurveyLow>>, <<SurveyNoScore, SurveyHigh, SurveyLow>>}

(***************************************************************************)
(* fetch_user_data, src/main.py:60-112.                                    *)
(*                                                                         *)
(* fault is the failure the store injects into one build:                  *)
(*   [kind |-> "none"]             no failure                              *)
(*   [kind |-> "stream", at |-> k] users_ref.stream() raises after it has  *)
(*                                 yielded k documents                     *)
(*   [kind |-> "lookup", at |-> i] the Surveys query made for the i-th     *)
(*                                 user document raises                    *)
(***************************************************************************)
NoFault == [kind |-> "none", at |-> 0]
Faults(n) ==
    {NoFault} \cup {[kind |-> "stream", at |-> k] : k \in 0..n}
              \cup {[kind |-> "lookup", at |-> i] : i \in 1..n}

\* `if data:`, src/main.py:70, negated: the documents the loop passes over.
Skipped_needs_id(data) == data.empty \/ data.id = None \/ data.id = Some("??")

Skipped(data) == data.empty

RECURSIVE FirstFrom(_, _, _)
FirstFrom(svs, key, j) ==
    IF j > Len(svs) THEN None
    ELSE IF svs[j].id = key THEN svs[j].questionScore
    ELSE FirstFrom(svs, key, j + 1)

RECURSIVE LastFrom(_, _, _, _)
LastFrom(svs, key, j, found) ==
    IF j > Len(svs) THEN found
    ELSE IF svs[j].id = key THEN LastFrom(svs, key, j + 1, svs[j].questionScore)
    ELSE LastFrom(svs, key, j + 1, found)

question_score_last(svs, key, fails) ==
    [exc |-> fails, score |-> LastFrom(svs, key, 1, None)]

question_score_absorbing(svs, key, fails) ==
    [exc |-> FALSE, score |-> IF fails THEN None ELSE FirstFrom(svs, key, 1)]

\* The survey lookup, src/main.py:84-89: the questionScore of the first
\* document the query yields; an exception of the query is not caught here.
question_score(svs, key, fails) ==
    [exc |-> fails, score |-> FirstFrom(svs, key, 1)]

\* The dict appended at src/main.py:93-106.
Row(data, score, raw, ts) ==
    [Name |-> data.name, Age |-> data.age, Gender |-> data.gender,
     Pay |-> data.pay, Score |-> score, Risk |-> interpret_score(score),
     RawTimestamp |-> raw, Timestamp |-> ts]

\* The loop of src/main.py:68-106 from the i-th document on, user_data being
\* the rows appended so far.  exc tells whether an exception left the loop.
RECURSIVE UserLoop(_, _, _, _, _)
UserLoop(us, svs, fault, i, user_data) ==
    IF fault.kind = "stream" /\ fault.at = i - 1
    THEN [exc |-> TRUE, rows |-> user_data]
    ELSE IF i > Len(us) THEN [exc |-> FALSE, rows |-> user_data]
    ELSE IF Skipped(us[i]) THEN UserLoop(us, svs, fault, i + 1, user_data)
    ELSE LET data == us[i]
             raw == NormalizeTimestamp(data.createdAt)
             q == question_score(svs, data.id, fault.kind = "lookup" /\ fault.at = i)
             f == FormatTimestamp(raw)
         IN  IF q.exc \/ f.exc
             THEN [exc |-> TRUE, rows |-> user_data]
             ELSE UserLoop(us, svs, fault, i + 1,
                           Append(user_data, Row(data, q.score, raw, f.s)))

\* pd.DataFrame(user_data), src/main.py:108: the rows under a fresh
\* RangeIndex 0..n-1.  A frame is a sequence of [ix, row].
DataFrame(rows) == [p \in 1..Len(rows) |-> [ix |-> p - 1, row |-> rows[p]]]

Outcome_partial(r) ==
    [df |-> DataFrame(r.rows), error |-> r.exc]

\* The two exits of fetch_user_data, src/main.py:108-112: the frame of the
\* rows, or st.error and an empty frame.
Outcome(r) ==
    IF r.exc THEN [df |-> <<>>, error |-> TRUE]
    ELSE [df |-> DataFrame(r.rows), error |-> FALSE]

fetch_user_data(us, svs, fault) == Outcome(UserLoop(us, svs, fault, 1, <<>>))

(***************************************************************************)
(* The state.  users and surveys are the two Firestore collections in the  *)
(* order the store returns them; now is the clock; cache is the single     *)
(* entry st.cache_data keeps for fetch_user_data; df is the script's       *)
(* variable df; pc is the script's position; last records the latest       *)
(* operation and its inputs.                                               *)
(***************************************************************************)
NoCache == [held |-> FALSE, value |-> <<>>, at |-> 0]

Started(d) ==
    [op |-> "start", hit |-> FALSE, fetched |-> 0, error |-> FALSE,
     fault |-> NoFault, returned |-> d,
     spec |-> [column |-> "", filter |-> "", ascending |-> TRUE]]

(***************************************************************************)
(* The classifier on its own: the score is drawn at the start.             *)
(***************************************************************************)
ScoreInputs == {None} \cup {Some(s) : s \in (0 - NegScores)..MaxScore}

InitClassify ==
    /\ users = <<>> /\ surveys = <<>> /\ now = 0 /\ cache = NoCache /\ df = <<>>
    /\ pc = "classify"
    /\ \E s \in ScoreInputs : last = [op |-> "input", score |-> s, risk |-> ""]

Classify ==
    /\ pc = "classify" /\ last.op = "input"
    /\ last' = [op |-> "interpret_score", score |-> last.score,
                risk |-> interpret_score(last.score)]
    /\ UNCHANGED <<users, surveys, now, cache, df, pc>>

SpecClassify == InitClassify /\ [][Classify]_vars

(***************************************************************************)
(* One uncached run of fetch_user_data over a store drawn at the start.    *)
(***************************************************************************)
InitBuild ==
    /\ users \in SeqsUpTo(UserDocs, MaxUsers)
    /\ surveys \in SurveyLists
    /\ now = 0 /\ cache = NoCache /\ df = <<>>
    /\ pc = "script"
    /\ last = Started(<<>>)

Build ==
    /\ pc = "script"
    /\ \E fault \in Faults(Len(users)) :
         LET out == fetch_user_data(users, surveys, fault)
         IN  /\ df' = out.df
             /\ last' = [Started(out.df) EXCEPT !.op = "fetch_user_data",
                           !.fetched = 1, !.error = out.error, !.fault = fault]
    /\ pc' = "built"
    /\ UNCHANGED <<users, surveys, now, cache>>

SpecBuild == InitBuild /\ [][Build]_vars

(***************************************************************************)
(* The sort/filter section of the script, src/main.py:132-163.  A query is *)
(* the widgets' values: the selected column, the radio's filter value and  *)
(* the sort order.  Email and Phone follow the branch of Name, Height and  *)
(* Weight that of Age.  Instants are values on one time line.              *)
(***************************************************************************)
SortColumns == {"Age", "Question Score", "Timestamp", "Name", "Risk Level"}

QuerySpecs ==
    {[column |-> "Payment Status", filter |-> f, ascending |-> TRUE] :
        f \in {"All", "True", "False"}}
    \cup {[column |-> "Gender", filter |-> f, ascending |-> TRUE] :
        f \in {"All", "Male", "Female"}}
    \cup {[column |-> c, filter |-> "", ascending |-> a] :
        c \in SortColumns, a \in BOOLEAN}

\* The lexical order of the strings of a text column, as a rank.
LexRank(str) ==
    CASE str = "Asha" -> 1 [] str = "Ravi" -> 2 [] str = "Zoya" -> 3
      [] str = "High Risk" -> 1 [] str = "Low Risk" -> 2
      [] str = "Moderate Risk" -> 3 [] str = "Unknown" -> 4
      [] str = "Very High Risk" -> 5

\* The lexical order of the strings strftime writes: day, then month.
FormattedRank(ts) == IF ts = NA THEN None ELSE Some(ts[1] * 10 + ts[2])

SortKey_formatted(row, column) ==
    CASE column = "Age" -> row.Age
      [] column = "Question Score" -> row.Score
      [] column = "Timestamp" -> FormattedRank(row.Timestamp)
      [] column = "Name" -> IF row.Name = None THEN None ELSE Some(LexRank(row.Name[1]))
      [] column = "Risk Level" -> Some(LexRank(row.Risk))

\* The value sort_values compares for the selected column, src/main.py:150-159:
\* the Raw Timestamp column for Timestamp, else the column itself.  None is a
\* missing value (None, NaN or NaT).
SortKey(row, column) ==
    CASE column = "Age" -> row.Age
      [] column = "Question Score" -> row.Score
      [] column = "Timestamp" ->
           IF row.RawTimestamp.k = "Timestamp" THEN Some(row.RawTimestamp.t) ELSE None
      [] column = "Name" -> IF row.Name = None THEN None ELSE Some(LexRank(row.Name[1]))
      [] column = "Risk Level" -> Some(LexRank(row.Risk))

InOrder_ascending_only(keys, ascending) ==
    \A i, j \in 1..Len(keys) :
      i < j => /\ keys[i] = None => keys[j] = None
               /\ (keys[i] # None /\ keys[j] # None) => keys[i][1] <= keys[j][1]

\* The order sort_values(ascending=..., na_position="last") guarantees:
\* missing values after all others, the others by value in the direction.
InOrder(keys, ascending) ==
    \A i, j \in 1..Len(keys) :
      i < j => /\ keys[i] = None => keys[j] = None
               /\ (keys[i] # None /\ keys[j] # None) =>
                     IF ascending THEN keys[i][1] <= keys[j][1]
                     ELSE keys[i][1] >= keys[j][1]

Arrangements(n) == {p \in [1..n -> 1..n] : \A i, j \in 1..n : p[i] = p[j] => i = j}

\* df.sort_values(by=..., ascending=...), src/main.py:152-159, with the default
\* kind="quicksort", which pandas documents as not stable: the rows with a
\* value may come out in any arrangement that is in order.  pandas does not
\* pass the rows with a missing value to the sort: it appends them in the
\* order they had.  (numpy's quicksort falls back to an insertion sort on
\* short arrays; the small frames here stand for frames of any length.)
sort_values(d, column, ascending) ==
    LET key(k) == SortKey(d[k].row, column)
    IN  {[k \in 1..Len(d) |-> d[q[k]]] : q \in
            {p \in Arrangements(Len(d)) :
                /\ InOrder([k \in 1..Len(d) |-> key(p[k])], ascending)
                /\ \A i, j \in 1..Len(d) :
                     (i < j /\ key(p[i]) = None /\ key(p[j]) = None) => p[i] < p[j]}}

\* df[df[column] == value], src/main.py:138-145: the rows, labels kept.
HasPay(e, flag) == e.row.Pay = Some(flag)
HasGender(e, g) == e.row.Gender = Some(g)

\* df.reset_index(drop=True, inplace=True), src/main.py:161.
reset_index(d) == [k \in 1..Len(d) |-> [ix |-> k - 1, row |-> d[k].row]]

\* The branches of src/main.py:135-159: the frames df can be bound to.
Branches(d, spec) ==
    CASE spec.column = "Payment Status" ->
           IF spec.filter = "True" THEN {SelectSeq(d, LAMBDA e : HasPay(e, TRUE))}
           ELSE IF spec.filter = "False" THEN {SelectSeq(d, LAMBDA e : HasPay(e, FALSE))}
           ELSE {d}
      [] spec.column = "Gender" ->
           IF spec.filter # "All" THEN {SelectSeq(d, LAMBDA e : HasGender(e, spec.filter))}
           ELSE {d}
      [] OTHER -> sort_values(d, spec.column, spec.ascending)

QueryEffect_in_place(c, view) == [c EXCEPT !.value = view]

\* What the section does to the cache entry: fetch_user_data hands out a copy
\* of the cached frame (st.cache_data, src/main.py:59), the filters and sorts
\* bind df to new frames, so the entry is not written.
QueryEffect(c, view) == c

(***************************************************************************)
(* The dashboard: script runs over the cached fetch_user_data.             *)
(***************************************************************************)
TTL == 60

CacheFresh_inclusive(c, t) == c.held /\ t - c.at <= TTL

\* st.cache_data(ttl=60), src/main.py:59: the entry is served while its age
\* is below the ttl.
CacheFresh(c, t) == c.held /\ t - c.at < TTL

CachedUserDocs == {DocMatched, DocUnmatched, DocNoId}

Init ==
    /\ users \in SeqsUpTo(CachedUserDocs, MaxCachedUsers)
    /\ surveys \in {<<SurveyLow, SurveyHigh>>, <<SurveyNoScore>>}
    /\ now = 0 /\ cache = NoCache /\ df = <<>>
    /\ pc = "idle"
    /\ last = Started(<<>>)

\* df = fetch_user_data(), src/main.py:123, through the cache.
Get ==
    /\ pc = "idle"
    /\ IF CacheFresh(cache, now)
       THEN /\ df' = cache.value
            /\ cache' = cache
            /\ last' = [Started(cache.value) EXCEPT !.op = "get", !.hit = TRUE]
       ELSE \E fault \in Faults(Len(users)) :
              LET out == fetch_user_data(users, surveys, fault)
              IN  /\ df' = out.df
                  /\ cache' = [held |-> TRUE, value |-> out.df, at |-> now]
                  /\ last' = [Started(out.df) EXCEPT !.op = "get", !.fetched = 1,
                                !.error = out.error, !.fault = fault]
    /\ pc' = "loaded"
    /\ UNCHANGED <<users, surveys, now>>

\* `if df.empty`, src/main.py:125-126: nothing to sort or filter.
NoData ==
    /\ pc = "loaded" /\ df = <<>>
    /\ pc' = "idle"
    /\ last' = [last EXCEPT !.op = "nodata"]
    /\ UNCHANGED <<users, surveys, now, cache, df>>

\* The sort/filter section and its trailing reset_index, src/main.py:127-163.
Query ==
    /\ pc = "loaded" /\ df # <<>>
    /\ \E spec \in QuerySpecs : \E view \in Branches(df, spec) :
         /\ df' = reset_index(view)
         /\ cache' = QueryEffect(cache, reset_index(view))
         /\ last' = [last EXCEPT !.op = "query", !.spec = spec]
    /\ pc' = "idle"
    /\ UNCHANGED <<users, surveys, now>>

\* Time passes.
Tick ==
    /\ now + TickStep <= MaxTime
    /\ now' = now + TickStep
    /\ UNCHANGED <<users, surveys, cache, df, pc, last>>

\* Another client of the store deletes the first user document.
StoreChange ==
    /\ users # <<>>
    /\ users' = Tail(users)
    /\ UNCHANGED <<surveys, now, cache, df, pc, last>>

Next == Get \/ NoData \/ Query \/ Tick \/ StoreChange

Spec == Init /\ [][Next]_vars

(***************************************************************************)
(* The sort/filter section on its own, over the frames fetch_user_data     *)
(* returns for the stores of at most MaxRows users.                        *)
(***************************************************************************)
QueryFrames ==
    {fetch_user_data(us, svs, NoFault).df :
        us \in SeqsUpTo(UserDocs \ {EmptyDoc, DocListTs}, MaxRows),
        svs \in {<<SurveyHigh>>, <<SurveyNoScore, SurveyLow>>}} \ {<<>>}

InitQuery ==
    /\ users = <<>> /\ surveys = <<>> /\ now = 0
    /\ df \in QueryFrames
    /\ cache = [held |-> TRUE, value |-> df, at |-> 0]
    /\ pc = "loaded"
    /\ last = [Started(df) EXCEPT !.op = "get", !.fetched = 1]

SpecQuery == InitQuery /\ [][Query]_vars

(***************************************************************************)
(* Properties of interpret_score.                                          *)
(***************************************************************************)
Classified == pc = "classify" /\ last.op = "interpret_score"

RiskOf(s) == IF Some(s) = last.score THEN last.risk ELSE "other input"

\* C1: interpret_score answers for every score, absent or any integer
\* (negatives included), by the boundary table: absent is Unknown, at most 20
\* is Low Risk, 21..35 Moderate Risk, 36..39 High Risk, above 39 Very High
\* Risk; the ten listed inputs give the ten listed categories.
C1_BoundaryTable ==
    Classified =>
      /\ (last.score = None) => (last.risk = "Unknown")
      /\ (last.score # None /\ last.score[1] <= 20) => (last.risk = "Low Risk")
      /\ (last.score # None /\ 20 < last.score[1] /\ last.score[1] <= 35)
            => (last.risk = "Moderate Risk")
      /\ (last.score # None /\ 35 < last.score[1] /\ last.score[1] <= 39)
            => (last.risk = "High Risk")
      /\ (last.score # None /\ last.score[1] > 39) => (last.risk = "Very High Risk")
      /\ RiskOf(-5) \in {"Low Risk", "other input"}
      /\ RiskOf(0) \in {"Low Risk", "other input"}
      /\ RiskOf(20) \in {"Low Risk", "other input"}
      /\ RiskOf(21) \in {"Moderate Risk", "other input"}
      /\ RiskOf(35) \in {"Moderate Risk", "other input"}
      /\ RiskOf(36) \in {"High Risk", "other input"}
      /\ RiskOf(39) \in {"High Risk", "other input"}
      /\ RiskOf(40) \in {"Very High Risk", "other input"}
      /\ RiskOf(100) \in {"Very High Risk", "other input"}

C1_Witness == Classified /\ last.score = Some(-5) /\ last.risk = "Low Risk"

(***************************************************************************)
(* Properties of one run of fetch_user_data.                               *)
(***************************************************************************)
Built == pc = "built"

\* The number of non-empty documents among the first i users: the position
\* of the i-th user's row when every non-empty document yields one row.
NonEmptyUpTo(i) == Cardinality({k \in 1..i : ~users[k].empty})

Matches(i) == {j \in 1..Len(surveys) : surveys[j].id = users[i].id}

FirstOf(S) == CHOOSE j \in S : \A k \in S : j <= k

Risks(d) == [p \in 1..Len(d) |-> d[p].row.Risk]

Parseable(data) == ~data.empty /\ data.id # None /\ data.id # Some("??")

EndToEnd ==
    /\ users = <<DocMatched, DocUnmatched, DocBadId>>
    /\ surveys = <<SurveyHigh>>
    /\ last.fault = NoFault

\* C4 as the specification states it: a user document without a well-formed
\* id yields no row, and the three-document scenario returns the two rows
\* High Risk, Unknown.
C4_MalformedSkipped ==
    (Built /\ ~last.error) =>
      /\ Len(df) = Cardinality({k \in 1..Len(users) : Parseable(users[k])})
      /\ EndToEnd => Risks(df) = <<"High Risk", "Unknown">>

\* C4 as amended: only an empty document is passed over; a document whose id
\* is missing or malformed yields a row like any other, and the
\* three-document scenario returns three rows High Risk, Unknown, Unknown.
C4_OnlyEmptySkipped ==
    (Built /\ ~last.error) =>
      /\ Len(df) = Cardinality({k \in 1..Len(users) : ~users[k].empty})
      /\ EndToEnd => Risks(df) = <<"High Risk", "Unknown", "Unknown">>

C4_Witness ==
    /\ Built /\ ~last.error
    /\ \E i, j, k \in 1..Len(users) :
         /\ users[i].empty
         /\ ~users[j].empty /\ users[j].id = None
         /\ users[k].id = Some("??")
    /\ Len(df) = Len(users) - 1

\* C5: when the stream of user documents fails, before the first document or
\* after rows were appended, an error is reported and the frame returned is
\* empty: no partial set of rows.
C5_StreamFailureEmpty ==
    (Built /\ last.fault.kind = "stream") => (last.error /\ df = <<>>)

C5_Witness ==
    /\ Built /\ last.fault.kind = "stream" /\ last.fault.at >= 2
    /\ \A i \in 1..2 : ~users[i].empty /\ users[i].createdAt.kind # "list"
    /\ last.error /\ df = <<>>

NoListTimestamps == \A i \in 1..Len(users) : users[i].createdAt.kind # "list"

LookupStruck ==
    Built /\ last.fault.kind = "lookup" /\ ~users[last.fault.at].empty

\* C6 as the specification states it: a failing survey lookup counts as "no
\* survey": the user still yields a row with absent score and Unknown, the
\* other rows are emitted and no error is reported.
C6_LookupFailureAbsorbed ==
    (LookupStruck /\ NoListTimestamps) =>
      /\ ~last.error
      /\ Len(df) = NonEmptyUpTo(Len(users))
      /\ df[NonEmptyUpTo(last.fault.at)].row.Score = None
      /\ df[NonEmptyUpTo(last.fault.at)].row.Risk = "Unknown"

\* C6 as amended: a failing survey lookup for one user document aborts the
\* build: an error is reported and the frame returned is empty, the rows
\* appended before it included.
C6_LookupFailureAborts ==
    LookupStruck => (last.error /\ df = <<>>)

C6_Witness ==
    /\ LookupStruck /\ NoListTimestamps /\ last.fault.at = 2
    /\ ~users[1].empty
    /\ last.error /\ df = <<>>

UnusableTimestamp(raw) == raw.kind \in {"absent", "emptystr", "badstr", "bool", "list"}

\* C9: with no store failure, every non-empty user document whose createdAt
\* is absent, unparsable or of an unsupported type yields a row with NaT as
\* Raw Timestamp and "N/A" as Timestamp, and the build reports no error.
C9_BadTimestampIsNA ==
    (Built /\ last.fault = NoFault) =>
      /\ ~last.error
      /\ Len(df) = NonEmptyUpTo(Len(users))
      /\ \A i \in 1..Len(users) :
           (~users[i].empty /\ UnusableTimestamp(users[i].createdAt)) =>
             /\ df[NonEmptyUpTo(i)].row.RawTimestamp = NaT
             /\ df[NonEmptyUpTo(i)].row.Timestamp = NA

(***************************************************************************)
(* Properties of the cache.                                                *)
(***************************************************************************)
GetStep == pc = "idle" /\ pc' = "loaded"

\* C2: a call of fetch_user_data made while an entry is held and younger than
\* 60 seconds returns the held frame, leaves the entry alone and reads nothing
\* from the store; a call made with no entry, or with one aged 60 seconds or
\* more, runs fetch_user_data once on the store as it is now and replaces the
\* entry by its result, captured now.
C2_ServedWithinTTL ==
    [][GetStep =>
         IF cache.held /\ now - cache.at < 60
         THEN df' = cache.value /\ cache' = cache /\ last'.fetched = 0
         ELSE /\ last'.fetched = 1
              /\ cache' = [held |-> TRUE, value |-> df', at |-> now]
              /\ \E fault \in Faults(Len(users)) :
                   df' = fetch_user_data(users, surveys, fault).df]_vars

C2_Witness ==
    /\ pc = "loaded" /\ last.op = "get" /\ last.hit
    /\ now - cache.at > 0
    /\ df = cache.value
    /\ df # fetch_user_data(users, surveys, NoFault).df

\* C8: no query (a payment filter, a gender filter or a sort, All included)
\* changes the cache entry: after the section and its reset_index the entry
\* still holds the frame the call before it returned, and the next call within
\* the TTL returns that frame, row for row.
C8_QueryLeavesCache ==
    /\ [][(pc = "loaded" /\ pc' = "idle") => cache' = cache]_vars
    /\ [](last.op = "query" => cache.value = last.returned)
    /\ [][(last.op = "query" /\ GetStep /\ last'.hit) => df' = last.returned]_vars

C8_Witness ==
    /\ pc = "idle" /\ last.op = "query" /\ last.spec.column = "Age"
    /\ df # last.returned
    /\ CacheFresh(cache, now) /\ now - cache.at > 0
    /\ cache.value = last.returned

(***************************************************************************)
(* Properties of the sort/filter section.  The frame before the query is   *)
(* last.returned, the frame after it is df.                                *)
(***************************************************************************)
Sorted(column) == last.op = "query" /\ last.spec.column = column

Count(d, r) == Cardinality({k \in 1..Len(d) : d[k].row = r})

SameRows(a, b) ==
    /\ Len(a) = Len(b)
    /\ \A k \in 1..Len(a) : Count(a, a[k].row) = Count(b, a[k].row)

InstantOf(e) == IF e.row.RawTimestamp = NaT THEN None ELSE Some(e.row.RawTimestamp.t)

InstantsOf(d) == [k \in 1..Len(d) |-> InstantOf(d[k])]

\* C7: a sort on Timestamp orders the rows by the instant of Raw Timestamp,
\* not by the formatted string, with every NaT row after every other row in
\* both directions; instants T1, null, T2 with T1 < T2 come out T1, T2, null
\* ascending and T2, T1, null descending.
C7_TimestampSort ==
    Sorted("Timestamp") =>
      /\ SameRows(df, last.returned)
      /\ \A i, j \in 1..Len(df) :
           i < j =>
             /\ InstantOf(df[i]) = None => InstantOf(df[j]) = None
             /\ (InstantOf(df[i]) # None /\ InstantOf(df[j]) # None) =>
                   IF last.spec.ascending
                   THEN InstantOf(df[i])[1] <= InstantOf(df[j])[1]
                   ELSE InstantOf(df[i])[1] >= InstantOf(df[j])[1]
      /\ InstantsOf(last.returned) = <<Some(12), None, Some(21)>> =>
           InstantsOf(df) = IF last.spec.ascending
                            THEN <<Some(12), Some(21), None>>
                            ELSE <<Some(21), Some(12), None>>

C7_Witness ==
    /\ Sorted("Timestamp") /\ ~last.spec.ascending
    /\ InstantsOf(last.returned) = <<Some(12), None, Some(21)>>
    /\ InstantsOf(df) = <<Some(21), Some(12), None>>

\* The value of a row in a sortable column, missing values as None.
ColumnValue(e, column) ==
    CASE column = "Age" -> e.row.Age
      [] column = "Question Score" -> e.row.Score
      [] column = "Timestamp" -> InstantOf(e)
      [] column = "Name" ->
           IF e.row.Name = None THEN None ELSE Some(LexRank(e.row.Name[1]))
      [] column = "Risk Level" -> Some(LexRank(e.row.Risk))

KeysInOrder(d, column, ascending) ==
    \A i, j \in 1..Len(d) :
      i < j =>
        /\ ColumnValue(d[i], column) = None => ColumnValue(d[j], column) = None
        /\ (ColumnValue(d[i], column) # None /\ ColumnValue(d[j], column) # None) =>
              IF ascending
              THEN ColumnValue(d[i], column)[1] <= ColumnValue(d[j], column)[1]
              ELSE ColumnValue(d[i], column)[1] >= ColumnValue(d[j], column)[1]

\* The frame a stable sort gives: in order, rows of equal key in the order
\* they had before.
StableResult(d, column, ascending) ==
    \E p \in Arrangements(Len(d)) :
      /\ df = reset_index([k \in 1..Len(d) |-> d[p[k]]])
      /\ KeysInOrder(df, column, ascending)
      /\ \A i, j \in 1..Len(d) :
           (i < j /\ ColumnValue(d[p[i]], column) = ColumnValue(d[p[j]], column))
              => p[i] < p[j]

====
